---- MODULE Spec2Model ----
(***************************************************************************)
(* Context-pack assembly of scripts/pack_context.py: section extraction,   *)
(* keyword scoring, link expansion, recency filter, candidate ranking and  *)
(* the token-budgeted render loop.                                         *)
(*                                                                         *)
(* Text is a sequence of Unicode code points, as a Python str is; Str      *)
(* writes one from its ASCII characters.  None is a value no text equals.  *)
(* Scores are the integers the float arithmetic of score_note yields       *)
(* (3.0, 2.0 and counts are all whole numbers).                            *)
(***************************************************************************)
EXTENDS Integers, Sequences, FiniteSets, TLC

VARIABLES
    pc,              \* position of the running function
    notes,           \* the loaded notes (load_notes' list)
    query_terms,     \* lowercase terms of the question
    seed_ids,        \* caller's seed set
    hops,            \* link expansion depth
    recent_days,     \* recency window
    topk,            \* keyword top-K
    max_tokens,      \* token budget
    now,             \* datetime.now() of the run
    current,         \* expand_links: frontier
    expanded,        \* expand_links: visited set
    rounds,          \* expand_links: completed iterations of the for loop
    recent,          \* get_recent_notes: result
    note,            \* score_note: the note scored
    score,           \* score_note: result
    text,            \* extract_section: body text
    header,          \* extract_section: header name
    section,         \* extract_section: result
    candidate_ids,   \* create_context_pack: candidate id set
    candidate_notes, \* create_context_pack: ranked (note, score) list
    output_lines,    \* create_context_pack: ids of the blocks appended
    total_tokens,    \* create_context_pack: running token estimate
    included,        \* create_context_pack: number of blocks appended
    cursor           \* create_context_pack: candidates the render loop has taken

vars == <<pc, notes, query_terms, seed_ids, hops, recent_days, topk, max_tokens,
          now, current, expanded, rounds, recent, note, score, text, header,
          section, candidate_ids, candidate_notes, output_lines, total_tokens,
          included, cursor>>

vInputs == <<notes, query_terms, seed_ids, hops, recent_days, topk, max_tokens, now>>
vExpand == <<current, expanded, rounds>>
vScore == <<note, score>>
vExtract == <<text, header, section>>
vPack == <<candidate_ids, candidate_notes, output_lines, total_tokens, included, cursor>>

-----------------------------------------------------------------------------
(* Values and text helpers *)

\* Python's None: no text, and no character has code point -1
None == <<-1>>

\* truth value of None or of a string
Truthy(v) == v # None /\ v # <<>>

\* the printable ASCII characters, code points 32 to 126, in order; the
\* double quote, the backslash and the backquote, which no text here uses,
\* are left blank
Printable ==
    <<" ","!","","#","$","%","&","'","(",")","*","+",",","-",".","/",
      "0","1","2","3","4","5","6","7","8","9",":",";","<","=",">","?",
      "@","A","B","C","D","E","F","G","H","I","J","K","L","M","N","O",
      "P","Q","R","S","T","U","V","W","X","Y","Z","[","","]","^","_",
      "","a","b","c","d","e","f","g","h","i","j","k","l","m","n","o",
      "p","q","r","s","t","u","v","w","x","y","z","{","|","}","~">>

\* ord(c) of a printable ASCII character
Ord(c) == 31 + (CHOOSE i \in 1..Len(Printable) : Printable[i] = c)

\* the str whose characters are listed
Str(cs) == [i \in 1..Len(cs) |-> Ord(cs[i])]

\* "\n"
NL == 10

SetMin(S) == CHOOSE x \in S : \A y \in S : x <= y
SetMax(S) == CHOOSE x \in S : \A y \in S : x >= y

\* The characters \s (in a str pattern) and str.strip() treat as whitespace:
\* \t \n \v \f \r, \x1c-\x1f, space, \x85, \xa0, U+1680, U+2000-U+200A,
\* U+2028, U+2029, U+202F, U+205F, U+3000.
IsSpace(c) ==
    \/ c \in 9..13 \/ c \in 28..32 \/ c \in {133, 160, 5760}
    \/ c \in 8192..8202 \/ c \in {8232, 8233, 8239, 8287, 12288}

\* The one-character lowercase mappings of str.lower(), as runs
\* <<first, last, step, delta>>: every step-th code point from first to last
\* maps to itself plus delta.  U+03A3 is listed with its non-final form.
LowerRuns ==
    <<
       <<65,90,1,32>>, <<192,214,1,32>>, <<216,222,1,32>>, <<256,302,2,1>>,
       <<306,310,2,1>>, <<313,327,2,1>>, <<330,374,2,1>>, <<376,376,1,-121>>,
       <<377,381,2,1>>, <<385,385,1,210>>, <<386,388,2,1>>, <<390,390,1,206>>,
       <<391,391,1,1>>, <<393,394,1,205>>, <<395,395,1,1>>, <<398,398,1,79>>,
       <<399,399,1,202>>, <<400,400,1,203>>, <<401,401,1,1>>, <<403,403,1,205>>,
       <<404,404,1,207>>, <<406,406,1,211>>, <<407,407,1,209>>, <<408,408,1,1>>,
       <<412,412,1,211>>, <<413,413,1,213>>, <<415,415,1,214>>, <<416,420,2,1>>,
       <<422,422,1,218>>, <<423,423,1,1>>, <<425,425,1,218>>, <<428,428,1,1>>,
       <<430,430,1,218>>, <<431,431,1,1>>, <<433,434,1,217>>, <<435,437,2,1>>,
       <<439,439,1,219>>, <<440,440,1,1>>, <<444,444,1,1>>, <<452,452,1,2>>,
       <<453,453,1,1>>, <<455,455,1,2>>, <<456,456,1,1>>, <<458,458,1,2>>,
       <<459,475,2,1>>, <<478,494,2,1>>, <<497,497,1,2>>, <<498,500,2,1>>,
       <<502,502,1,-97>>, <<503,503,1,-56>>, <<504,542,2,1>>, <<544,544,1,-130>>,
       <<546,562,2,1>>, <<570,570,1,10795>>, <<571,571,1,1>>, <<573,573,1,-163>>,
       <<574,574,1,10792>>, <<577,577,1,1>>, <<579,579,1,-195>>, <<580,580,1,69>>,
       <<581,581,1,71>>, <<582,590,2,1>>, <<880,882,2,1>>, <<886,886,1,1>>,
       <<895,895,1,116>>, <<902,902,1,38>>, <<904,906,1,37>>, <<908,908,1,64>>,
       <<910,911,1,63>>, <<913,929,1,32>>, <<931,939,1,32>>, <<975,975,1,8>>,
       <<984,1006,2,1>>, <<1012,1012,1,-60>>, <<1015,1015,1,1>>, <<1017,1017,1,-7>>,
       <<1018,1018,1,1>>, <<1021,1023,1,-130>>, <<1024,1039,1,80>>, <<1040,1071,1,32>>,
       <<1120,1152,2,1>>, <<1162,1214,2,1>>, <<1216,1216,1,15>>, <<1217,1229,2,1>>,
       <<1232,1326,2,1>>, <<1329,1366,1,48>>, <<4256,4293,1,7264>>, <<4295,4295,1,7264>>,
       <<4301,4301,1,7264>>, <<5024,5103,1,38864>>, <<5104,5109,1,8>>, <<7312,7354,1,-3008>>,
       <<7357,7359,1,-3008>>, <<7680,7828,2,1>>, <<7838,7838,1,-7615>>, <<7840,7934,2,1>>,
       <<7944,7951,1,-8>>, <<7960,7965,1,-8>>, <<7976,7983,1,-8>>, <<7992,7999,1,-8>>,
       <<8008,8013,1,-8>>, <<8025,8031,2,-8>>, <<8040,8047,1,-8>>, <<8072,8079,1,-8>>,
       <<8088,8095,1,-8>>, <<8104,8111,1,-8>>, <<8120,8121,1,-8>>, <<8122,8123,1,-74>>,
       <<8124,8124,1,-9>>, <<8136,8139,1,-86>>, <<8140,8140,1,-9>>, <<8152,8153,1,-8>>,
       <<8154,8155,1,-100>>, <<8168,8169,1,-8>>, <<8170,8171,1,-112>>, <<8172,8172,1,-7>>,
       <<8184,8185,1,-128>>, <<8186,8187,1,-126>>, <<8188,8188,1,-9>>, <<8486,8486,1,-7517>>,
       <<8490,8490,1,-8383>>, <<8491,8491,1,-8262>>, <<8498,8498,1,28>>, <<8544,8559,1,16>>,
       <<8579,8579,1,1>>, <<9398,9423,1,26>>, <<11264,11311,1,48>>, <<11360,11360,1,1>>,
       <<11362,11362,1,-10743>>, <<11363,11363,1,-3814>>, <<11364,11364,1,-10727>>, <<11367,11371,2,1>>,
       <<11373,11373,1,-10780>>, <<11374,11374,1,-10749>>, <<11375,11375,1,-10783>>, <<11376,11376,1,-10782>>,
       <<11378,11378,1,1>>, <<11381,11381,1,1>>, <<11390,11391,1,-10815>>, <<11392,11490,2,1>>,
       <<11499,11501,2,1>>, <<11506,11506,1,1>>, <<42560,42604,2,1>>, <<42624,42650,2,1>>,
       <<42786,42798,2,1>>, <<42802,42862,2,1>>, <<42873,42875,2,1>>, <<42877,42877,1,-35332>>,
       <<42878,42886,2,1>>, <<42891,42891,1,1>>, <<42893,42893,1,-42280>>, <<42896,42898,2,1>>,
       <<42902,42920,2,1>>, <<42922,42922,1,-42308>>, <<42923,42923,1,-42319>>, <<42924,42924,1,-42315>>,
       <<42925,42925,1,-42305>>, <<42926,42926,1,-42308>>, <<42928,42928,1,-42258>>, <<42929,42929,1,-42282>>,
       <<42930,42930,1,-42261>>, <<42931,42931,1,928>>, <<42932,42946,2,1>>, <<42948,42948,1,-48>>,
       <<42949,42949,1,-42307>>, <<42950,42950,1,-35384>>, <<42951,42953,2,1>>, <<42960,42960,1,1>>,
       <<42966,42968,2,1>>, <<42997,42997,1,1>>, <<65313,65338,1,32>>, <<66560,66599,1,40>>,
       <<66736,66771,1,40>>, <<66928,66964,2,39>>, <<66929,66938,1,39>>, <<66941,66954,1,39>>,
       <<66957,66962,1,39>>, <<66965,66965,1,39>>, <<68736,68786,1,64>>, <<71840,71871,1,32>>,
       <<93760,93791,1,32>>, <<125184,125217,1,34>>
    >>

\* str.lower() on a character whose mapping is one character and does not
\* depend on its neighbours
LowerChar(c) ==
    IF c \in 65..90 THEN c + 32
    ELSE IF c < 192 THEN c
    ELSE LET hits == {k \in 1..Len(LowerRuns) :
                        /\ LowerRuns[k][1] <= c /\ c <= LowerRuns[k][2]
                        /\ (c - LowerRuns[k][1]) % LowerRuns[k][3] = 0}
         IN IF hits = {} THEN c ELSE c + LowerRuns[SetMin(hits)][4]

\* The cased characters that are not case-ignorable, as ranges <<first, last>>
CasedRanges ==
    <<
       <<65,90>>, <<97,122>>, <<170,170>>, <<181,181>>, <<186,186>>, <<192,214>>,
       <<216,246>>, <<248,442>>, <<444,447>>, <<452,659>>, <<661,687>>, <<880,883>>,
       <<886,887>>, <<891,893>>, <<895,895>>, <<902,902>>, <<904,906>>, <<908,908>>,
       <<910,929>>, <<931,1013>>, <<1015,1153>>, <<1162,1327>>, <<1329,1366>>, <<1376,1416>>,
       <<4256,4293>>, <<4295,4295>>, <<4301,4301>>, <<4304,4346>>, <<4349,4351>>, <<5024,5109>>,
       <<5112,5117>>, <<7296,7304>>, <<7312,7354>>, <<7357,7359>>, <<7424,7467>>, <<7531,7543>>,
       <<7545,7578>>, <<7680,7957>>, <<7960,7965>>, <<7968,8005>>, <<8008,8013>>, <<8016,8023>>,
       <<8025,8025>>, <<8027,8027>>, <<8029,8029>>, <<8031,8061>>, <<8064,8116>>, <<8118,8124>>,
       <<8126,8126>>, <<8130,8132>>, <<8134,8140>>, <<8144,8147>>, <<8150,8155>>, <<8160,8172>>,
       <<8178,8180>>, <<8182,8188>>, <<8450,8450>>, <<8455,8455>>, <<8458,8467>>, <<8469,8469>>,
       <<8473,8477>>, <<8484,8484>>, <<8486,8486>>, <<8488,8488>>, <<8490,8493>>, <<8495,8500>>,
       <<8505,8505>>, <<8508,8511>>, <<8517,8521>>, <<8526,8526>>, <<8544,8575>>, <<8579,8580>>,
       <<9398,9449>>, <<11264,11387>>, <<11390,11492>>, <<11499,11502>>, <<11506,11507>>, <<11520,11557>>,
       <<11559,11559>>, <<11565,11565>>, <<42560,42605>>, <<42624,42651>>, <<42786,42863>>, <<42865,42887>>,
       <<42891,42894>>, <<42896,42954>>, <<42960,42961>>, <<42963,42963>>, <<42965,42969>>, <<42997,42998>>,
       <<43002,43002>>, <<43824,43866>>, <<43872,43880>>, <<43888,43967>>, <<64256,64262>>, <<64275,64279>>,
       <<65313,65338>>, <<65345,65370>>, <<66560,66639>>, <<66736,66771>>, <<66776,66811>>, <<66928,66938>>,
       <<66940,66954>>, <<66956,66962>>, <<66964,66965>>, <<66967,66977>>, <<66979,66993>>, <<66995,67001>>,
       <<67003,67004>>, <<68736,68786>>, <<68800,68850>>, <<71840,71903>>, <<93760,93823>>, <<119808,119892>>,
       <<119894,119964>>, <<119966,119967>>, <<119970,119970>>, <<119973,119974>>, <<119977,119980>>, <<119982,119993>>,
       <<119995,119995>>, <<119997,120003>>, <<120005,120069>>, <<120071,120074>>, <<120077,120084>>, <<120086,120092>>,
       <<120094,120121>>, <<120123,120126>>, <<120128,120132>>, <<120134,120134>>, <<120138,120144>>, <<120146,120485>>,
       <<120488,120512>>, <<120514,120538>>, <<120540,120570>>, <<120572,120596>>, <<120598,120628>>, <<120630,120654>>,
       <<120656,120686>>, <<120688,120712>>, <<120714,120744>>, <<120746,120770>>, <<120772,120779>>, <<122624,122633>>,
       <<122635,122654>>, <<125184,125251>>, <<127280,127305>>, <<127312,127337>>, <<127344,127369>>
    >>

\* The case-ignorable characters, as ranges <<first, last>>
CaseIgnorableRanges ==
    <<
       <<39,39>>, <<46,46>>, <<58,58>>, <<94,94>>, <<96,96>>, <<168,168>>,
       <<173,173>>, <<175,175>>, <<180,180>>, <<183,184>>, <<688,879>>, <<884,885>>,
       <<890,890>>, <<900,901>>, <<903,903>>, <<1155,1161>>, <<1369,1369>>, <<1375,1375>>,
       <<1425,1469>>, <<1471,1471>>, <<1473,1474>>, <<1476,1477>>, <<1479,1479>>, <<1524,1524>>,
       <<1536,1541>>, <<1552,1562>>, <<1564,1564>>, <<1600,1600>>, <<1611,1631>>, <<1648,1648>>,
       <<1750,1757>>, <<1759,1768>>, <<1770,1773>>, <<1807,1807>>, <<1809,1809>>, <<1840,1866>>,
       <<1958,1968>>, <<2027,2037>>, <<2042,2042>>, <<2045,2045>>, <<2070,2093>>, <<2137,2139>>,
       <<2184,2184>>, <<2192,2193>>, <<2200,2207>>, <<2249,2306>>, <<2362,2362>>, <<2364,2364>>,
       <<2369,2376>>, <<2381,2381>>, <<2385,2391>>, <<2402,2403>>, <<2417,2417>>, <<2433,2433>>,
       <<2492,2492>>, <<2497,2500>>, <<2509,2509>>, <<2530,2531>>, <<2558,2558>>, <<2561,2562>>,
       <<2620,2620>>, <<2625,2626>>, <<2631,2632>>, <<2635,2637>>, <<2641,2641>>, <<2672,2673>>,
       <<2677,2677>>, <<2689,2690>>, <<2748,2748>>, <<2753,2757>>, <<2759,2760>>, <<2765,2765>>,
       <<2786,2787>>, <<2810,2815>>, <<2817,2817>>, <<2876,2876>>, <<2879,2879>>, <<2881,2884>>,
       <<2893,2893>>, <<2901,2902>>, <<2914,2915>>, <<2946,2946>>, <<3008,3008>>, <<3021,3021>>,
       <<3072,3072>>, <<3076,3076>>, <<3132,3132>>, <<3134,3136>>, <<3142,3144>>, <<3146,3149>>,
       <<3157,3158>>, <<3170,3171>>, <<3201,3201>>, <<3260,3260>>, <<3263,3263>>, <<3270,3270>>,
       <<3276,3277>>, <<3298,3299>>, <<3328,3329>>, <<3387,3388>>, <<3393,3396>>, <<3405,3405>>,
       <<3426,3427>>, <<3457,3457>>, <<3530,3530>>, <<3538,3540>>, <<3542,3542>>, <<3633,3633>>,
       <<3636,3642>>, <<3654,3662>>, <<3761,3761>>, <<3764,3772>>, <<3782,3782>>, <<3784,3789>>,
       <<3864,3865>>, <<3893,3893>>, <<3895,3895>>, <<3897,3897>>, <<3953,3966>>, <<3968,3972>>,
       <<3974,3975>>, <<3981,3991>>, <<3993,4028>>, <<4038,4038>>, <<4141,4144>>, <<4146,4151>>,
       <<4153,4154>>, <<4157,4158>>, <<4184,4185>>, <<4190,4192>>, <<4209,4212>>, <<4226,4226>>,
       <<4229,4230>>, <<4237,4237>>, <<4253,4253>>, <<4348,4348>>, <<4957,4959>>, <<5906,5908>>,
       <<5938,5939>>, <<5970,5971>>, <<6002,6003>>, <<6068,6069>>, <<6071,6077>>, <<6086,6086>>,
       <<6089,6099>>, <<6103,6103>>, <<6109,6109>>, <<6155,6159>>, <<6211,6211>>, <<6277,6278>>,
       <<6313,6313>>, <<6432,6434>>, <<6439,6440>>, <<6450,6450>>, <<6457,6459>>, <<6679,6680>>,
       <<6683,6683>>, <<6742,6742>>, <<6744,6750>>, <<6752,6752>>, <<6754,6754>>, <<6757,6764>>,
       <<6771,6780>>, <<6783,6783>>, <<6823,6823>>, <<6832,6862>>, <<6912,6915>>, <<6964,6964>>,
       <<6966,6970>>, <<6972,6972>>, <<6978,6978>>, <<7019,7027>>, <<7040,7041>>, <<7074,7077>>,
       <<7080,7081>>, <<7083,7085>>, <<7142,7142>>, <<7144,7145>>, <<7149,7149>>, <<7151,7153>>,
       <<7212,7219>>, <<7222,7223>>, <<7288,7293>>, <<7376,7378>>, <<7380,7392>>, <<7394,7400>>,
       <<7405,7405>>, <<7412,7412>>, <<7416,7417>>, <<7468,7530>>, <<7544,7544>>, <<7579,7679>>,
       <<8125,8125>>, <<8127,8129>>, <<8141,8143>>, <<8157,8159>>, <<8173,8175>>, <<8189,8190>>,
       <<8203,8207>>, <<8216,8217>>, <<8228,8228>>, <<8231,8231>>, <<8234,8238>>, <<8288,8292>>,
       <<8294,8303>>, <<8305,8305>>, <<8319,8319>>, <<8336,8348>>, <<8400,8432>>, <<11388,11389>>,
       <<11503,11505>>, <<11631,11631>>, <<11647,11647>>, <<11744,11775>>, <<11823,11823>>, <<12293,12293>>,
       <<12330,12333>>, <<12337,12341>>, <<12347,12347>>, <<12441,12446>>, <<12540,12542>>, <<40981,40981>>,
       <<42232,42237>>, <<42508,42508>>, <<42607,42610>>, <<42612,42621>>, <<42623,42623>>, <<42652,42655>>,
       <<42736,42737>>, <<42752,42785>>, <<42864,42864>>, <<42888,42890>>, <<42994,42996>>, <<43000,43001>>,
       <<43010,43010>>, <<43014,43014>>, <<43019,43019>>, <<43045,43046>>, <<43052,43052>>, <<43204,43205>>,
       <<43232,43249>>, <<43263,43263>>, <<43302,43309>>, <<43335,43345>>, <<43392,43394>>, <<43443,43443>>,
       <<43446,43449>>, <<43452,43453>>, <<43471,43471>>, <<43493,43494>>, <<43561,43566>>, <<43569,43570>>,
       <<43573,43574>>, <<43587,43587>>, <<43596,43596>>, <<43632,43632>>, <<43644,43644>>, <<43696,43696>>,
       <<43698,43700>>, <<43703,43704>>, <<43710,43711>>, <<43713,43713>>, <<43741,43741>>, <<43756,43757>>,
       <<43763,43764>>, <<43766,43766>>, <<43867,43871>>, <<43881,43883>>, <<44005,44005>>, <<44008,44008>>,
       <<44013,44013>>, <<64286,64286>>, <<64434,64450>>, <<65024,65039>>, <<65043,65043>>, <<65056,65071>>,
       <<65106,65106>>, <<65109,65109>>, <<65279,65279>>, <<65287,65287>>, <<65294,65294>>, <<65306,65306>>,
       <<65342,65342>>, <<65344,65344>>, <<65392,65392>>, <<65438,65439>>, <<65507,65507>>, <<65529,65531>>,
       <<66045,66045>>, <<66272,66272>>, <<66422,66426>>, <<67456,67461>>, <<67463,67504>>, <<67506,67514>>,
       <<68097,68099>>, <<68101,68102>>, <<68108,68111>>, <<68152,68154>>, <<68159,68159>>, <<68325,68326>>,
       <<68900,68903>>, <<69291,69292>>, <<69446,69456>>, <<69506,69509>>, <<69633,69633>>, <<69688,69702>>,
       <<69744,69744>>, <<69747,69748>>, <<69759,69761>>, <<69811,69814>>, <<69817,69818>>, <<69821,69821>>,
       <<69826,69826>>, <<69837,69837>>, <<69888,69890>>, <<69927,69931>>, <<69933,69940>>, <<70003,70003>>,
       <<70016,70017>>, <<70070,70078>>, <<70089,70092>>, <<70095,70095>>, <<70191,70193>>, <<70196,70196>>,
       <<70198,70199>>, <<70206,70206>>, <<70367,70367>>, <<70371,70378>>, <<70400,70401>>, <<70459,70460>>,
       <<70464,70464>>, <<70502,70508>>, <<70512,70516>>, <<70712,70719>>, <<70722,70724>>, <<70726,70726>>,
       <<70750,70750>>, <<70835,70840>>, <<70842,70842>>, <<70847,70848>>, <<70850,70851>>, <<71090,71093>>,
       <<71100,71101>>, <<71103,71104>>, <<71132,71133>>, <<71219,71226>>, <<71229,71229>>, <<71231,71232>>,
       <<71339,71339>>, <<71341,71341>>, <<71344,71349>>, <<71351,71351>>, <<71453,71455>>, <<71458,71461>>,
       <<71463,71467>>, <<71727,71735>>, <<71737,71738>>, <<71995,71996>>, <<71998,71998>>, <<72003,72003>>,
       <<72148,72151>>, <<72154,72155>>, <<72160,72160>>, <<72193,72202>>, <<72243,72248>>, <<72251,72254>>,
       <<72263,72263>>, <<72273,72278>>, <<72281,72283>>, <<72330,72342>>, <<72344,72345>>, <<72752,72758>>,
       <<72760,72765>>, <<72767,72767>>, <<72850,72871>>, <<72874,72880>>, <<72882,72883>>, <<72885,72886>>,
       <<73009,73014>>, <<73018,73018>>, <<73020,73021>>, <<73023,73029>>, <<73031,73031>>, <<73104,73105>>,
       <<73109,73109>>, <<73111,73111>>, <<73459,73460>>, <<78896,78904>>, <<92912,92916>>, <<92976,92982>>,
       <<92992,92995>>, <<94031,94031>>, <<94095,94111>>, <<94176,94177>>, <<94179,94180>>, <<110576,110579>>,
       <<110581,110587>>, <<110589,110590>>, <<113821,113822>>, <<113824,113827>>, <<118528,118573>>, <<118576,118598>>,
       <<119143,119145>>, <<119155,119170>>, <<119173,119179>>, <<119210,119213>>, <<119362,119364>>, <<121344,121398>>,
       <<121403,121452>>, <<121461,121461>>, <<121476,121476>>, <<121499,121503>>, <<121505,121519>>, <<122880,122886>>,
       <<122888,122904>>, <<122907,122913>>, <<122915,122916>>, <<122918,122922>>, <<123184,123197>>, <<123566,123566>>,
       <<123628,123631>>, <<125136,125142>>, <<125252,125259>>, <<127995,127999>>, <<917505,917505>>, <<917536,917631>>,
       <<917760,917999>>
    >>

IsCased(c) ==
    \E k \in 1..Len(CasedRanges) : CasedRanges[k][1] <= c /\ c <= CasedRanges[k][2]

IsCaseIgnorable(c) ==
    \E k \in 1..Len(CaseIgnorableRanges) :
        CaseIgnorableRanges[k][1] <= c /\ c <= CaseIgnorableRanges[k][2]

\* U+03A3 at position i is in final position: the nearest character before
\* it that is not case-ignorable is cased, and the nearest such character
\* after it, if any, is not
FinalSigma(s, i) ==
    LET before == {j \in 1..(i - 1) : ~IsCaseIgnorable(s[j])}
        after == {j \in (i + 1)..Len(s) : ~IsCaseIgnorable(s[j])}
    IN /\ before # {}
       /\ IsCased(s[SetMax(before)])
       /\ (after = {} \/ ~IsCased(s[SetMin(after)]))

\* what str.lower() puts for the character at position i: U+03A3 depends on
\* its place in the word and U+0130 becomes two characters
LowerAt(s, i) ==
    IF s[i] = 931 THEN <<IF FinalSigma(s, i) THEN 962 ELSE 963>>
    ELSE IF s[i] = 304 THEN <<105, 775>>
    ELSE <<LowerChar(s[i])>>

RECURSIVE LowerFrom(_, _)
\* str.lower() of s[i-1:]
LowerFrom(s, i) ==
    IF i > Len(s) THEN <<>> ELSE LowerAt(s, i) \o LowerFrom(s, i + 1)

\* str.lower()
Lower(s) ==
    IF \A i \in 1..Len(s) : s[i] < 128
    THEN [i \in 1..Len(s) |-> LowerChar(s[i])]
    ELSE LowerFrom(s, 1)

\* s[i:].startswith(p), i counted from 1
StartsWithAt(s, p, i) ==
    /\ i + Len(p) - 1 <= Len(s)
    /\ \A k \in 1..Len(p) : s[i + k - 1] = p[k]

\* `p in s`
Contains(s, p) == \E i \in 1..(Len(s) + 1) : StartsWithAt(s, p, i)

RECURSIVE CountFrom(_, _, _)
\* str.count scanning from position i: non-overlapping matches, left to right.
CountFrom(s, p, i) ==
    IF i + Len(p) - 1 > Len(s) THEN 0
    ELSE IF StartsWithAt(s, p, i) THEN 1 + CountFrom(s, p, i + Len(p))
    ELSE CountFrom(s, p, i + 1)

\* s.count(p): the empty string is counted between all characters
Count(s, p) == IF Len(p) = 0 THEN Len(s) + 1 ELSE CountFrom(s, p, 1)

\* str.strip()
Strip(s) ==
    LET keep == {i \in 1..Len(s) : ~IsSpace(s[i])}
    IN IF keep = {} THEN <<>>
       ELSE SubSeq(s, CHOOSE i \in keep : \A j \in keep : i <= j,
                      CHOOSE i \in keep : \A j \in keep : i >= j)

RECURSIVE JoinWith(_, _)
\* sep.join(parts)
JoinWith(parts, sep) ==
    IF Len(parts) = 0 THEN <<>>
    ELSE IF Len(parts) = 1 THEN parts[1]
    ELSE parts[1] \o sep \o JoinWith(Tail(parts), sep)

-----------------------------------------------------------------------------
(* extract_section: re.search(r"^## H\s*\n(.*?)(?:\n## |\Z)", text, S | M) *)

HeaderMark == Str(<<"#", "#", " ">>)
NextMark == <<NL>> \o HeaderMark

\* `^` under re.M: the start of the text or just after a newline.
AtLineStart(t, i) == i = 1 \/ t[i - 1] = NL

\* First position at or after p that is not whitespace (Len+1 when none):
\* where the greedy \s* stops.
WsEnd(t, p) ==
    SetMin({q \in p..(Len(t) + 1) : q = Len(t) + 1 \/ ~IsSpace(t[q])})

\* The newline `\s*\n` ends on: greedy \s* backtracks to the last newline of
\* the whitespace run that follows the header.  {} when the run has none.
HeaderNewlines(t, p) == {j \in p..(WsEnd(t, p) - 1) : t[j] = NL}

\* The pattern matches starting at i.  The lazy group always finds its end
\* (at worst \Z), so the first alternative tried for \s* decides.
MatchesAt(t, h, i) ==
    /\ AtLineStart(t, i)
    /\ StartsWithAt(t, HeaderMark \o h, i)
    /\ HeaderNewlines(t, i + 3 + Len(h)) # {}

\* group(1) of the match starting at i: from just after the consumed newline
\* to the first "\n## " or the end of the text.
GroupAt(t, h, i) ==
    LET g == SetMax(HeaderNewlines(t, i + 3 + Len(h))) + 1
        k == SetMin({e \in g..(Len(t) + 1) :
                        e = Len(t) + 1 \/ StartsWithAt(t, NextMark, e)})
    IN SubSeq(t, g, k - 1)

extract_section(t, h) ==
    LET starts == {i \in 1..Len(t) : MatchesAt(t, h, i)}
    IN IF starts = {} THEN <<>>
       ELSE Strip(GroupAt(t, h, SetMin(starts)))

-----------------------------------------------------------------------------
(* score_note *)

RECURSIVE SumOver(_, _)
\* sum of f[term] over the list of terms (one addend per list element)
SumOver(terms, f) ==
    IF Len(terms) = 0 THEN 0 ELSE f[terms[1]] + SumOver(Tail(terms), f)

TermSetOf(terms) == {terms[i] : i \in 1..Len(terms)}

\* first loop: +3.0 per term found in the lowercased title
TitleScore(n, terms) ==
    LET title_lower == Lower(n.title)
    IN SumOver(terms, [t \in TermSetOf(terms) |->
                          IF Contains(title_lower, t) THEN 3 ELSE 0])

\* the second loop had the text been the lowercased body alone
BodyScore_BodyOnly(n, terms) ==
    LET txt == Lower(n.text)
    IN SumOver(terms, [t \in TermSetOf(terms) |-> Count(txt, t)])

\* second loop: + text.count(term), text = (title + "\n" + body).lower()
BodyScore(n, terms) ==
    LET txt == Lower(n.title \o <<NL>> \o n.text)
    IN SumOver(terms, [t \in TermSetOf(terms) |-> Count(txt, t)])

\* third loop: +2.0 per term found in " ".join(tags).lower()
TagScore(n, terms) ==
    LET tags_str == Lower(JoinWith(n.tags, Str(<<" ">>)))
    IN SumOver(terms, [t \in TermSetOf(terms) |->
                          IF Contains(tags_str, t) THEN 2 ELSE 0])

score_note(n, terms) ==
    TitleScore(n, terms) + BodyScore(n, terms) + TagScore(n, terms)

-----------------------------------------------------------------------------
(* expand_links *)

\* Index of the note notes_by_id maps id to: the dict comprehension keeps
\* the last note carrying the id; 0 when no note with a truthy id carries it.
IndexOf(ns, id) ==
    LET at == {i \in 1..Len(ns) : Truthy(ns[i].id) /\ ns[i].id = id}
    IN IF at = {} THEN 0 ELSE SetMax(at)

HasNote(ns, id) == IndexOf(ns, id) # 0

notes_by_id(ns, id) == ns[IndexOf(ns, id)]

\* link.get("to") of every link of a note
Targets(n) == {n.links[k].to : k \in 1..Len(n.links)}

\* the pass had it kept only targets that name a loaded note
next_layer_resolved(ns, cur, exp) ==
    {t \in UNION {Targets(notes_by_id(ns, id)) : id \in {c \in cur : HasNote(ns, c)}} :
        Truthy(t) /\ t \notin exp /\ HasNote(ns, t)}

\* the pass had it followed only the first link of each note
next_layer_firstlink(ns, cur, exp) ==
    {t \in {notes_by_id(ns, id).links[1].to :
                id \in {c \in cur : HasNote(ns, c) /\ Len(notes_by_id(ns, c).links) > 0}} :
        Truthy(t) /\ t \notin exp}

\* the pass had it not tested `target not in expanded`
next_layer_revisit(ns, cur, exp) ==
    {t \in UNION {Targets(notes_by_id(ns, id)) : id \in {c \in cur : HasNote(ns, c)}} :
        Truthy(t)}

\* One pass of the for loop body: the targets of the frontier's notes that
\* are truthy and not yet in expanded.
next_layer(ns, cur, exp) ==
    {t \in UNION {Targets(notes_by_id(ns, id)) : id \in {c \in cur : HasNote(ns, c)}} :
        Truthy(t) /\ t \notin exp}

RECURSIVE ExpandLoop(_, _, _, _)
\* the for loop with k iterations left
ExpandLoop(ns, cur, exp, k) ==
    IF k <= 0 THEN exp
    ELSE LET nl == next_layer(ns, cur, exp)
         IN IF nl = {} THEN exp
            ELSE ExpandLoop(ns, nl, exp \cup nl, k - 1)

expand_links(ns, seeds, h) == ExpandLoop(ns, seeds, seeds, h)

-----------------------------------------------------------------------------
(* get_recent_notes *)
(* A datetime is [day, tod]: a day number and a time of day in ticks,      *)
(* tod = 0 being midnight exactly.  `updated` is a record with a kind:     *)
(* "none" (absent), "str" (a YYYY-MM-DD string), "badstr" (a string        *)
(* strptime rejects), "date" (a datetime.date, what YAML yields for        *)
(* 2024-01-01) or "datetime".                                              *)

NoDate == [kind |-> "none", day |-> 0, tod |-> 0]

\* datetime >= datetime
DtGE(a, b) == a.day > b.day \/ (a.day = b.day /\ a.tod >= b.tod)

\* datetime.now() - timedelta(days=days)
Cutoff(nowv, days) == [day |-> nowv.day - days, tod |-> nowv.tod]

\* The try block for one note: TRUE when `updated_dt >= cutoff` evaluates to
\* True.  strptime raises on a malformed string and a date compared with a
\* datetime raises TypeError; `except Exception: pass` swallows both.
IsRecent(u, cutoff) ==
    CASE u.kind = "str" -> DtGE([day |-> u.day, tod |-> 0], cutoff)
      [] u.kind = "datetime" -> DtGE([day |-> u.day, tod |-> u.tod], cutoff)
      [] u.kind = "date" -> FALSE
      [] u.kind = "badstr" -> FALSE
      [] OTHER -> FALSE

get_recent_notes(ns, days, nowv) ==
    {ns[i].id : i \in {j \in 1..Len(ns) :
                        /\ ns[j].updated.kind # "none"
                        /\ IsRecent(ns[j].updated, Cutoff(nowv, days))
                        /\ Truthy(ns[j].id)}}

-----------------------------------------------------------------------------
(* create_context_pack: candidate collection and ranking *)

RECURSIVE InsertDesc(_, _)
\* insert pair p after every element whose score is >= p's (stable)
InsertDesc(sorted, p) ==
    IF Len(sorted) = 0 THEN <<p>>
    ELSE IF sorted[Len(sorted)][2] >= p[2] THEN Append(sorted, p)
    ELSE Append(InsertDesc(SubSeq(sorted, 1, Len(sorted) - 1), p),
                sorted[Len(sorted)])

\* the list had the sort call been left out
SortDesc_Unsorted(pairs) == pairs

RECURSIVE SortDesc(_)
\* list.sort(key=lambda x: x[1], reverse=True): stable, descending by score
SortDesc(pairs) ==
    IF Len(pairs) = 0 THEN <<>>
    ELSE InsertDesc(SortDesc(SubSeq(pairs, 1, Len(pairs) - 1)), pairs[Len(pairs)])

\* scored = [(n, score_note(n, query_terms)) for n in notes]; scored.sort(...)
Scored(ns, terms) == SortDesc([i \in 1..Len(ns) |-> <<ns[i], score_note(ns[i], terms)>>])

\* s[:k] for k >= 0
Take(s, k) == SubSeq(s, 1, IF k < Len(s) THEN k ELSE Len(s))

\* the loop had it filtered the sorted list before slicing it
TopKIds_FilterFirst(ns, terms, k) ==
    LET top == Take(SelectSeq(Scored(ns, terms),
                              LAMBDA p : Truthy(p[1].id) /\ p[2] > 0), k)
    IN {top[i][1].id : i \in 1..Len(top)}

\* for note, score in scored[:topk]: if note["id"] and score > 0: add
TopKIds(ns, terms, k) ==
    LET top == Take(Scored(ns, terms), k)
    IN {top[i][1].id : i \in {j \in 1..Len(top) : Truthy(top[j][1].id) /\ top[j][2] > 0}}

\* the three contributions to candidate_ids
SeedIds(ns, seeds, h) == IF seeds # {} THEN expand_links(ns, seeds, h) ELSE {}

\* [notes_by_id[nid] for nid in candidate_ids if nid in notes_by_id], scored,
\* for one enumeration order `order` of the candidate set
Resolve(ns, order, terms) ==
    LET kept == SelectSeq(order, LAMBDA nid : HasNote(ns, nid))
    IN [i \in 1..Len(kept) |->
            <<notes_by_id(ns, kept[i]), score_note(notes_by_id(ns, kept[i]), terms)>>]

\* the enumeration orders a set can be iterated in
Orders(S) == {o \in [1..Cardinality(S) -> S] : \A x \in S : \E i \in DOMAIN o : o[i] = x}

-----------------------------------------------------------------------------
(* create_context_pack: the render loop *)

\* the section names create_context_pack extracts
HSummary == Str(<<"S","u","m","m","a","r","y">>)
HKeyPoints == Str(<<"K","e","y"," ","P","o","i","n","t","s">>)

\* len(str(v)): None prints as "None"
StrLen(v) == IF v = None THEN 4 ELSE Len(v)

\* len(", ".join(parts)) for parts given by their lengths
RECURSIVE JoinedLen(_)
JoinedLen(lens) ==
    IF Len(lens) = 0 THEN 0
    ELSE IF Len(lens) = 1 THEN lens[1]
    ELSE lens[1] + 2 + JoinedLen(Tail(lens))

\* len(section_text) of one note's block, piece by piece
SectionLen(n) ==
    LET summary == extract_section(n.text, HSummary)
        key_points == extract_section(n.text, HKeyPoints)
        tags5 == Take(n.tags, 5)
        links5 == Take(n.links, 5)
    IN 6 + StrLen(n.id) + 2 + Len(n.title) + 1
       + (IF summary # <<>> THEN 14 + Len(summary) + 1 ELSE 0)
       + (IF key_points # <<>> THEN 17 + Len(key_points) + 1 ELSE 0)
       + 9 + StrLen(n.type)
       + 9 + JoinedLen([i \in 1..Len(tags5) |-> Len(tags5[i])])
       + 10 + Len(n.rel_path) + 1
       + 15 + StrLen(n.confidence)
       + (IF Len(n.links) > 0
            THEN 10 + JoinedLen([i \in 1..Len(links5) |-> StrLen(links5[i].to) + 2])
            ELSE 0)
       + 1

\* the estimate had the length been rounded up
EstTokens_RoundUp(n) == (SectionLen(n) + 3) \div 4

\* est_tokens = len(section_text) // 4
EstTokens(n) == SectionLen(n) \div 4

\* the break condition had it tested `included >= 3`
BudgetStop_OffByOne(total, est, maxTok, incl) == total + est > maxTok /\ incl >= 3

\* the break condition of the loop
BudgetStop(total, est, maxTok, incl) == total + est > maxTok /\ incl > 3

-----------------------------------------------------------------------------
(* Notes as load_notes builds them *)

Rep(c, n) == [i \in 1..n |-> c]

\* the dict load_notes appends; title, tags, links and confidence carry the
\* loader's defaults when the front matter has none
MkNote(id, title, body, tags, links, updated) ==
    [id |-> id, type |-> None, title |-> title, tags |-> tags, links |-> links,
     updated |-> updated, confidence |-> Str(<<"m","e","d","i","u","m">>),
     text |-> body, rel_path |-> Str(<<"v","a","u","l","t","/","n",".","m","d">>)]

Link(t) == [to |-> t]

BlankNote == MkNote(None, <<>>, <<>>, <<>>, <<>>, NoDate)

Midnight0 == [day |-> 0, tod |-> 0]

\* values of the variables a function under study does not use
ParkInputs ==
    /\ notes = <<>> /\ query_terms = <<>> /\ seed_ids = {} /\ hops = 0
    /\ recent_days = 0 /\ topk = 0 /\ max_tokens = 0 /\ now = Midnight0
ParkExpand == current = {} /\ expanded = {} /\ rounds = 0
ParkRecent == recent = {}
ParkScore == note = BlankNote /\ score = 0
ParkExtract == text = <<>> /\ header = <<>> /\ section = <<>>
ParkPack ==
    /\ candidate_ids = {} /\ candidate_notes = <<>> /\ output_lines = <<>>
    /\ total_tokens = 0 /\ included = 0 /\ cursor = 0

-----------------------------------------------------------------------------
(* SpecExtract: extract_section on bodies made of a few kinds of lines *)

MaxLines == 4


LineKinds ==
    { HeaderMark \o HSummary,
      HeaderMark \o HKeyPoints,
      HeaderMark \o HSummary \o Str(<<"x">>),
      \* a header line that ends in a form feed and a no-break space
      HeaderMark \o HKeyPoints \o <<12, 160>>,
      Str(<<"a","b">>),
      Str(<<" "," ","c">>),
      <<>> }

\* the bodies of n lines
Bodies(n) == {JoinWith(ls, <<NL>>) : ls \in [1..n -> LineKinds]}

InitExtract ==
    /\ pc = "extract_call"
    /\ \E n \in 0..MaxLines : text \in Bodies(n)
    /\ header \in {HSummary, HKeyPoints}
    /\ section = <<>>
    /\ ParkInputs /\ ParkExpand /\ ParkRecent /\ ParkScore /\ ParkPack

ExtractSection ==
    /\ pc = "extract_call"
    /\ section' = extract_section(text, header)
    /\ pc' = "extract_done"
    /\ UNCHANGED <<text, header, vInputs, vExpand, recent, vScore, vPack>>

NextExtract == ExtractSection

SpecExtract == InitExtract /\ [][NextExtract]_vars

RECURSIVE SplitLines(_)
\* the lines of a text (text.split("\n"))
SplitLines(t) ==
    LET nls == {i \in 1..Len(t) : t[i] = NL}
    IN IF nls = {} THEN <<t>>
       ELSE <<SubSeq(t, 1, SetMin(nls) - 1)>>
            \o SplitLines(SubSeq(t, SetMin(nls) + 1, Len(t)))

\* The section as the claim words it: the stripped text between the first
\* line that is exactly "## H" and the next line starting with "## " (or the
\* end of the body); empty when there is no "## H" line.
SectionBetweenHeaders(t, h) ==
    LET ls == SplitLines(t)
        hs == {i \in 1..Len(ls) : ls[i] = HeaderMark \o h}
    IN IF hs = {} THEN <<>>
       ELSE LET first == SetMin(hs)
                nxt == SetMin({j \in (first + 1)..(Len(ls) + 1) :
                                j = Len(ls) + 1 \/ StartsWithAt(ls[j], HeaderMark, 1)})
            IN Strip(JoinWith(SubSeq(ls, first + 1, nxt - 1), <<NL>>))

\* C10: extract_section returns the stripped text between the first line that
\* is exactly "## H" and the next line starting with "## " (or the end of the
\* body), and the empty string when there is no such header line; so a header
\* line directly followed by another header line gives an empty result.
C10_SectionIsTextBetweenHeaders ==
    pc = "extract_done" => section = SectionBetweenHeaders(text, header)

-----------------------------------------------------------------------------
(* SpecScore: score_note on small notes and term lists *)

MaxTerms == 2

\* the last title is "A" and U+0130, which lowers to "a", "i", U+0307
ScoreTitles ==
    {<<>>, Str(<<"a">>), Str(<<"A","b">>), Str(<<"a","A","a">>),
     Str(<<"b"," ","a","i">>), <<Ord("A"), 304>>}
ScoreBodies == {<<>>, Str(<<"b">>), Str(<<"a","b">>), Str(<<"a","b","A","B">>), Str(<<"a","a","a","a">>)}
ScoreTags == {<<>>, << Str(<<"a","b">>) >>, << Str(<<"a">>), Str(<<"b">>) >>, << Str(<<"A","I">>), Str(<<"x">>) >>}
ScoreTerms == {Str(<<"a","b">>), Str(<<"a","i">>), Str(<<"a","a">>)}

ExampleNote ==
    MkNote(None,
           Str(<<"A","l","i","g","n","m","e","n","t"," ","R","e","s","e","a","r","c","h">>),
           Str(<<"a","l","i","g","n","m","e","n","t"," ","i","s"," ","h","a","r","d">>),
           << Str(<<"a","i">>), Str(<<"a","l","i","g","n","m","e","n","t">>) >>,
           <<>>, NoDate)
ExampleTerms == << Str(<<"a","l","i","g","n","m","e","n","t">>) >>

InitScore ==
    /\ pc = "score_call"
    /\ \/ /\ note \in {MkNote(None, t, b, g, <<>>, NoDate) :
                          t \in ScoreTitles, b \in ScoreBodies, g \in ScoreTags}
          /\ query_terms \in UNION {[1..n -> ScoreTerms] : n \in 0..MaxTerms}
       \/ /\ note = ExampleNote
          /\ query_terms = ExampleTerms
    /\ score = 0
    /\ notes = <<>> /\ seed_ids = {} /\ hops = 0 /\ recent_days = 0 /\ topk = 0
    /\ max_tokens = 0 /\ now = Midnight0
    /\ ParkExpand /\ ParkRecent /\ ParkExtract /\ ParkPack

ScoreNote ==
    /\ pc = "score_call"
    /\ score' = score_note(note, query_terms)
    /\ pc' = "score_done"
    /\ UNCHANGED <<note, vInputs, vExpand, recent, vExtract, vPack>>

NextScore == ScoreNote

SpecScore == InitScore /\ [][NextScore]_vars

\* start positions at which p occurs in s
Occurrences(s, p) == {i \in 1..Len(s) : StartsWithAt(s, p, i)}

\* number of occurrences of p in s, occurrences that share a character
\* counting once: the most occurrences that can be picked pairwise disjoint
DisjointOccurrences(s, p) ==
    SetMax({Cardinality(S) : S \in {T \in SUBSET Occurrences(s, p) :
                \A i, j \in T : i < j => j - i >= Len(p)}})

\* the three signals of one term, as the scoring formula states them
TermSignals(n, t) ==
    (IF Contains(Lower(n.title), t) THEN 3 ELSE 0)
    + DisjointOccurrences(Lower(n.title \o <<NL>> \o n.text), t)
    + (IF Contains(Lower(JoinWith(n.tags, Str(<<" ">>))), t) THEN 2 ELSE 0)

RECURSIVE SignalSum(_, _, _)
\* TermSignals summed over the first k terms of the list
SignalSum(n, terms, k) ==
    IF k = 0 THEN 0 ELSE TermSignals(n, terms[k]) + SignalSum(n, terms, k - 1)

\* some term matches the title, the title-and-body text or the tag list
AnyMatch(n, terms) ==
    \E i \in 1..Len(terms) :
        \/ Contains(Lower(n.title), terms[i])
        \/ Contains(Lower(n.title \o <<NL>> \o n.text), terms[i])
        \/ Contains(Lower(JoinWith(n.tags, Str(<<" ">>))), terms[i])

\* C8: score_note returns, summed over the terms, 3 if the term is in the
\* lowercased title, plus 1 per occurrence of the term in the lowercased
\* title-and-body text, plus 2 if the term is in the lowercased space-joined
\* tags; the score is never negative and is 0 exactly when nothing matches;
\* the worked example ("Alignment Research", term "alignment") scores 7.
C8_ScoreFormula ==
    pc = "score_done" =>
        /\ score = SignalSum(note, query_terms, Len(query_terms))
        /\ score >= 0
        /\ (score = 0 <=> ~AnyMatch(note, query_terms))
        /\ (note = ExampleNote /\ query_terms = ExampleTerms => score = 7)

\* the worked example has been scored, and scored 7
C8_Witness ==
    /\ pc = "score_done"
    /\ note = ExampleNote /\ query_terms = ExampleTerms
    /\ score = 7

-----------------------------------------------------------------------------
(* SpecRecent: get_recent_notes around the cutoff day *)

MaxRecentNotes == 2
MaxDays == 2
TicksPerDay == 3
NowDay == 10

IdA == Str(<<"a">>)
IdB == Str(<<"b">>)
IdC == Str(<<"c">>)
IdD == Str(<<"d">>)
IdZ == Str(<<"z">>)

\* the id the i-th note of a vault carries when it has one of its own
IdOf(i) == <<IdA, IdB, IdC, IdD>>[i]

UpdatedDays == (NowDay - MaxDays - 1)..(NowDay + 1)

UpdatedValues ==
    {NoDate, [kind |-> "badstr", day |-> 0, tod |-> 0]}
    \cup {[kind |-> k, day |-> d, tod |-> 0] : k \in {"str", "date"}, d \in UpdatedDays}
    \cup {[kind |-> "datetime", day |-> d, tod |-> t] :
            d \in UpdatedDays, t \in 0..(TicksPerDay - 1)}

\* the vaults of n notes, each with its own id or none
RecentVaults(n) ==
    {[i \in 1..n |-> MkNote(IF own[i] THEN IdOf(i) ELSE None,
                            <<>>, <<>>, <<>>, <<>>, ups[i])] :
        own \in [1..n -> BOOLEAN], ups \in [1..n -> UpdatedValues]}

InitRecent ==
    /\ pc = "recent_call"
    /\ \E n \in 1..MaxRecentNotes : notes \in RecentVaults(n)
    /\ recent_days \in 0..MaxDays
    /\ now \in {[day |-> NowDay, tod |-> t] : t \in 0..(TicksPerDay - 1)}
    /\ recent = {}
    /\ query_terms = <<>> /\ seed_ids = {} /\ hops = 0 /\ topk = 0 /\ max_tokens = 0
    /\ ParkExpand /\ ParkScore /\ ParkExtract /\ ParkPack

GetRecentNotes ==
    /\ pc = "recent_call"
    /\ recent' = get_recent_notes(notes, recent_days, now)
    /\ pc' = "recent_done"
    /\ UNCHANGED <<vInputs, vExpand, vScore, vExtract, vPack>>

NextRecent == GetRecentNotes

SpecRecent == InitRecent /\ [][NextRecent]_vars

\* C6: a note with an id and an `updated` date, given as a date value or as
\* a YYYY-MM-DD string, is in the result exactly when its date is on or after
\* the day `now - days`, at whatever time of day the run happens.
C6_RecencyBoundary ==
    pc = "recent_done" =>
        \A i \in 1..Len(notes) :
            (Truthy(notes[i].id) /\ notes[i].updated.kind \in {"str", "date"}) =>
                (notes[i].id \in recent <=> notes[i].updated.day >= now.day - recent_days)

-----------------------------------------------------------------------------
(* SpecExpand: expand_links, one iteration of its for loop per step *)

MaxLinks == 2
MaxHops == 3

\* a, b, c name notes; z names no note; None is a link without "to"
LinkTargets == <<IdA, IdB, IdC, IdZ, None>>

\* lists of at most MaxLinks distinct links to the first k targets
LinkLists(k) ==
    UNION {{[i \in 1..n |-> Link(LinkTargets[f[i]])] :
                f \in {g \in [1..n -> 1..k] :
                          \A i, j \in 1..n : i < j => g[i] < g[j]}} :
           n \in 0..MaxLinks}

\* three notes: a, b, and a third with the id given; the first may hold a
\* link without "to", the first two a link to an id that names no note
ExpandVaults(id3) ==
    {<<MkNote(IdA, <<>>, <<>>, <<>>, l1, NoDate),
       MkNote(IdB, <<>>, <<>>, <<>>, l2, NoDate),
       MkNote(id3, <<>>, <<>>, <<>>, l3, NoDate)>> :
        l1 \in LinkLists(5), l2 \in LinkLists(4), l3 \in LinkLists(3)}

InitExpand ==
    /\ pc = "expand_call"
    \* the third note is c, has no id, or repeats id a
    /\ \E id3 \in {IdC, None, IdA} : notes \in ExpandVaults(id3)
    /\ seed_ids \in SUBSET {IdA, IdC, IdZ}
    /\ hops \in 0..MaxHops
    /\ ParkExpand
    /\ query_terms = <<>> /\ recent_days = 0 /\ topk = 0 /\ max_tokens = 0
    /\ now = Midnight0
    /\ ParkRecent /\ ParkScore /\ ParkExtract /\ ParkPack

\* current = seed_ids.copy(); expanded = seed_ids.copy()
ExpandCall ==
    /\ pc = "expand_call"
    /\ current' = seed_ids
    /\ expanded' = seed_ids
    /\ rounds' = 0
    /\ pc' = "expand_loop"
    /\ UNCHANGED <<vInputs, recent, vScore, vExtract, vPack>>

\* one iteration of `for _ in range(hops)`, with its `break`
ExpandRound ==
    /\ pc = "expand_loop"
    /\ rounds < hops
    /\ LET nl == next_layer(notes, current, expanded)
       IN /\ expanded' = expanded \cup nl
          /\ current' = nl
          /\ pc' = IF nl = {} THEN "expand_done" ELSE "expand_loop"
    /\ rounds' = rounds + 1
    /\ UNCHANGED <<vInputs, recent, vScore, vExtract, vPack>>

\* range(hops) is exhausted: return expanded
ExpandReturn ==
    /\ pc = "expand_loop"
    /\ rounds >= hops
    /\ pc' = "expand_done"
    /\ UNCHANGED <<vInputs, vExpand, recent, vScore, vExtract, vPack>>

NextExpand == ExpandCall \/ ExpandRound \/ ExpandReturn

SpecExpand == InitExpand /\ [][NextExpand]_vars

\* ids of the notes the index holds
Loaded(ns) == {ns[i].id : i \in {j \in 1..Len(ns) : Truthy(ns[j].id)}}

\* u's note links to v
LinksTo(ns, u, v) ==
    \E i \in 1..Len(ns) :
        /\ ns[i].id = u /\ Truthy(u)
        /\ \A j \in (i + 1)..Len(ns) : ns[j].id # u
        /\ \E k \in 1..Len(ns[i].links) : ns[i].links[k].to = v /\ Truthy(v)

RECURSIVE WithinHops(_, _, _)
\* the seeds and every id at most k links away from some seed
WithinHops(ns, seeds, k) ==
    IF k = 0 THEN seeds
    ELSE LET r == WithinHops(ns, seeds, k - 1)
         IN r \cup {v \in UNION {Targets(ns[i]) : i \in 1..Len(ns)} :
                        \E u \in r : LinksTo(ns, u, v)}

\* C5: the result holds every seed; its loaded ids are exactly the loaded
\* ids among the seeds and the ids at most `hops` links away from a seed;
\* with hops = 0 the result is the seed set; the seed set is never changed.
C5_ExpandResult ==
    /\ [](pc = "expand_done" =>
            /\ seed_ids \subseteq expanded
            /\ expanded \cap Loaded(notes) = WithinHops(notes, seed_ids, hops) \cap Loaded(notes)
            /\ (hops = 0 => expanded = seed_ids))
    /\ [][seed_ids' = seed_ids]_vars

\* a two-hop expansion returned an id two links away from the seed
C5_Witness ==
    /\ pc = "expand_done" /\ hops = 2 /\ seed_ids = {IdA}
    /\ IdC \in expanded /\ IdC \in Loaded(notes) /\ IdB \in expanded
    /\ ~LinksTo(notes, IdA, IdC) /\ LinksTo(notes, IdB, IdC)

\* C9: one more hop never loses an id; while the loop runs the expanded set
\* only grows and a new frontier holds no id already expanded; the loop runs
\* at most `hops` iterations and stops at the first empty frontier.
C9_ExpandMonotone ==
    /\ [](expand_links(notes, seed_ids, hops)
            \subseteq expand_links(notes, seed_ids, hops + 1))
    /\ [](pc = "expand_done" =>
            /\ expanded = expand_links(notes, seed_ids, hops)
            /\ rounds <= hops
            /\ (rounds < hops => current = {}))
    /\ [](pc = "expand_loop" /\ rounds > 0 => current # {})
    /\ [][/\ expanded \subseteq expanded'
          /\ (rounds' # rounds => current' \cap expanded = {})]_vars

\* note a links to itself and to b, b links back to a: the first round
\* added b only, the second found nothing new and ended the loop
C9_Witness ==
    /\ pc = "expand_done" /\ seed_ids = {IdA} /\ hops = MaxHops /\ rounds = 2
    /\ LinksTo(notes, IdA, IdA) /\ LinksTo(notes, IdA, IdB) /\ LinksTo(notes, IdB, IdA)
    /\ expanded = {IdA, IdB} /\ current = {}

\* the notes with every link to an id that names no loaded note removed
Pruned(ns) ==
    [i \in 1..Len(ns) |->
        [ns[i] EXCEPT !.links =
            SelectSeq(@, LAMBDA l : ~Truthy(l.to) \/ l.to \in Loaded(ns))]]

\* the ids naming no loaded note that notes of `from` link to
DeadTargets(ns, from) ==
    {t \in UNION {Targets(ns[i]) : i \in 1..Len(ns)} :
        /\ t \notin Loaded(ns)
        /\ \E u \in from : LinksTo(ns, u, t)}

\* C3 as stated: a link target naming no loaded note never enters the
\* frontier nor the result, and the result is the one the same notes give
\* with such links absent.
C3_DeadLinksDropped ==
    /\ (current \cup expanded) \ seed_ids \subseteq Loaded(notes)
    /\ (pc = "expand_done" => expanded = expand_links(Pruned(notes), seed_ids, hops))

\* C3 amended: a link target naming no loaded note is never followed, but it
\* does enter the frontier and the result: the result is the one the notes
\* give with such links absent, plus the unresolvable targets of the notes
\* reached with a hop to spare; its loaded ids are the same.
C3_DeadLinksAreLeaves ==
    pc = "expand_done" =>
        /\ expanded =
             expand_links(Pruned(notes), seed_ids, hops)
             \cup (IF hops = 0 THEN {}
                   ELSE DeadTargets(notes, expand_links(Pruned(notes), seed_ids, hops - 1)))
        /\ expanded \cap Loaded(notes)
             = expand_links(Pruned(notes), seed_ids, hops) \cap Loaded(notes)

\* note a, whose only link names no loaded note, was expanded from, and the
\* unresolvable id is in the result
C3_Witness ==
    /\ pc = "expand_done" /\ seed_ids = {IdA} /\ hops >= 1
    /\ notes[1].links = <<Link(IdZ)>> /\ notes[3].id # IdA
    /\ expanded = {IdA, IdZ}

-----------------------------------------------------------------------------
(* Spec: create_context_pack from its first statement to the end of the    *)
(* render loop, on vaults of a few notes                                   *)

MaxPackNotes == 3
MaxTopK == 2

TermAB == Str(<<"a","b">>)

\* (title, body, tags) giving scores 6, 2 and 0 for the term "ab"
PackTexts ==
    { <<TermAB, Str(<<"A","b"," ","a","b">>), <<>> >>,
      <<Str(<<"x">>), <<>>, << Str(<<"A","B">>) >> >>,
      <<Str(<<"x">>), Str(<<"b","a">>), <<>> >> }

\* (links, updated) of the i-th note when it is given some: for an odd i,
\* links to the next note and to an id naming no note and an old date; for
\* an even i, no link and today's date
PackMeta(i) ==
    IF i % 2 = 1
    THEN << <<Link(IdOf(i + 1)), Link(IdZ)>>,
            [kind |-> "str", day |-> NowDay - MaxDays - 1, tod |-> 0] >>
    ELSE << <<>>, [kind |-> "str", day |-> NowDay, tod |-> 0] >>

\* what a note is made of: with its own id or none, its texts, with links
\* and a date or without; a note without an id has neither, as they are
\* never read
PackChoices ==
    {<<own, t, meta>> \in BOOLEAN \X PackTexts \X BOOLEAN : meta => own}

\* the i-th note made of choice c
PackNote(i, c) ==
    MkNote(IF c[1] THEN IdOf(i) ELSE None, c[2][1], c[2][2], c[2][3],
           IF c[3] THEN PackMeta(i)[1] ELSE <<>>,
           IF c[3] THEN PackMeta(i)[2] ELSE NoDate)

\* the vaults of n notes
PackVaults(n) == {[i \in 1..n |-> PackNote(i, c[i])] : c \in [1..n -> PackChoices]}

Init ==
    /\ pc = "collect_seeds"
    /\ \E n \in 1..MaxPackNotes : notes \in PackVaults(n)
    \* a question with the term "ab"; or one with no term, where every text
    \* scores 0, on the vaults whose texts are all the same
    /\ query_terms \in {<<TermAB>>}
           \cup (IF \A i \in 1..Len(notes) : notes[i].title = TermAB
                   THEN {<<>>} ELSE {})
    /\ seed_ids \in {{}, {IdA}}
    /\ hops = 1
    /\ recent_days = 1
    /\ topk \in {1, MaxTopK}
    /\ max_tokens = 1
    /\ now = [day |-> NowDay, tod |-> 1]
    /\ ParkExpand /\ ParkRecent /\ ParkScore /\ ParkExtract /\ ParkPack

\* if seed_ids: candidate_ids.update(expand_links(notes, set(seed_ids), hops))
CollectSeeds ==
    /\ pc = "collect_seeds"
    /\ candidate_ids' = SeedIds(notes, seed_ids, hops)
    /\ expanded' = SeedIds(notes, seed_ids, hops)
    /\ pc' = "collect_recent"
    /\ UNCHANGED <<vInputs, current, rounds, recent, vScore, vExtract,
                   candidate_notes, output_lines, total_tokens, included, cursor>>

\* recent = get_recent_notes(notes, recent_days); candidate_ids.update(recent)
CollectRecent ==
    /\ pc = "collect_recent"
    /\ recent' = get_recent_notes(notes, recent_days, now)
    /\ candidate_ids' = candidate_ids \cup get_recent_notes(notes, recent_days, now)
    /\ pc' = "collect_topk"
    /\ UNCHANGED <<vInputs, vExpand, vScore, vExtract,
                   candidate_notes, output_lines, total_tokens, included, cursor>>

\* the keyword top-K loop
CollectTopK ==
    /\ pc = "collect_topk"
    /\ candidate_ids' = candidate_ids \cup TopKIds(notes, query_terms, topk)
    /\ pc' = "rank"
    /\ UNCHANGED <<vInputs, vExpand, recent, vScore, vExtract,
                   candidate_notes, output_lines, total_tokens, included, cursor>>

\* resolve the candidate ids, in whatever order the set enumerates them,
\* score them again and sort; then the render loop's counters are set
Rank ==
    /\ pc = "rank"
    /\ \E order \in Orders(candidate_ids) :
          candidate_notes' = SortDesc(Resolve(notes, order, query_terms))
    /\ total_tokens' = 0
    /\ included' = 0
    /\ cursor' = 0
    /\ output_lines' = <<>>
    /\ pc' = "render"
    /\ UNCHANGED <<vInputs, vExpand, recent, vScore, vExtract, candidate_ids>>

\* one iteration of `for note, score in candidate_notes`: break, or append
RenderStep ==
    /\ pc = "render"
    /\ cursor < Len(candidate_notes)
    /\ LET n == candidate_notes[cursor + 1][1]
           est_tokens == EstTokens(n)
       IN IF BudgetStop(total_tokens, est_tokens, max_tokens, included)
          THEN /\ pc' = "done"
               /\ UNCHANGED <<output_lines, total_tokens, included, cursor>>
          ELSE /\ output_lines' = Append(output_lines, n.id)
               /\ total_tokens' = total_tokens + est_tokens
               /\ included' = included + 1
               /\ cursor' = cursor + 1
               /\ pc' = "render"
    /\ UNCHANGED <<vInputs, vExpand, recent, vScore, vExtract,
                   candidate_ids, candidate_notes>>

\* the candidate list is exhausted
RenderEnd ==
    /\ pc = "render"
    /\ cursor >= Len(candidate_notes)
    /\ pc' = "done"
    /\ UNCHANGED <<vInputs, vExpand, recent, vScore, vExtract, vPack>>

Next == CollectSeeds \/ CollectRecent \/ CollectTopK \/ Rank \/ RenderStep \/ RenderEnd

Spec == Init /\ [][Next]_vars

\* score of the i-th loaded note for the query terms
ScoreAt(i) == score_note(notes[i], query_terms)

\* note j stands before note i once the notes are sorted by descending score
\* (equal scores keep their load order)
RanksBefore(j, i) == ScoreAt(j) > ScoreAt(i) \/ (ScoreAt(j) = ScoreAt(i) /\ j < i)

\* the note has an id and a strictly positive score
Eligible(i) == Truthy(notes[i].id) /\ ScoreAt(i) > 0

\* ids of the first topk notes among the eligible ones
FirstEligible ==
    {notes[i].id : i \in {k \in 1..Len(notes) :
        /\ Eligible(k)
        /\ Cardinality({j \in 1..Len(notes) : Eligible(j) /\ RanksBefore(j, k)}) < topk}}

\* ids of the eligible notes among the first topk notes
EligibleOfFirst ==
    {notes[i].id : i \in {k \in 1..Len(notes) :
        /\ Eligible(k)
        /\ Cardinality({j \in 1..Len(notes) : RanksBefore(j, k)}) < topk}}

\* C4 as stated: the top-K step contributes the ids of the first topk notes
\* among those with an id and a positive score, so a note without an id
\* takes none of the topk places, and with at least topk such notes exactly
\* topk ids are contributed.
C4_TopKAmongEligible ==
    [][pc = "collect_topk" =>
        /\ candidate_ids' = candidate_ids \cup FirstEligible
        /\ (Cardinality({i \in 1..Len(notes) : Eligible(i)}) >= topk
              => \E S \in SUBSET candidate_ids' :
                    /\ Cardinality(S) = topk
                    /\ candidate_ids' = candidate_ids \cup S
                    /\ \A x \in S : \E i \in 1..Len(notes) : Eligible(i) /\ notes[i].id = x)]_vars

\* C4 amended: the top-K step contributes the ids of the notes that have an
\* id and a positive score among the first topk notes of the sorted list of
\* all notes: a note with score 0 never stands before a positive one, but a
\* note without an id and with a positive score does take a place, so fewer
\* than topk ids may be contributed.
C4_EligibleAmongTopK ==
    [][pc = "collect_topk" => candidate_ids' = candidate_ids \cup EligibleOfFirst]_vars

\* the top-K step has run on a vault where a note without an id took one of
\* the topk places and a lower-ranked note with an id and a positive score
\* was left out
C4_Witness ==
    /\ pc = "rank"
    /\ \E i, k \in 1..Len(notes) :
        /\ ~Truthy(notes[i].id) /\ ScoreAt(i) > 0
        /\ Cardinality({j \in 1..Len(notes) : RanksBefore(j, i)}) < topk
        /\ Eligible(k) /\ notes[k].id \notin candidate_ids
    /\ EligibleOfFirst # {}

\* the three id sets create_context_pack unites
UnionOfSources ==
    (IF seed_ids # {} THEN expand_links(notes, seed_ids, hops) ELSE {})
    \cup get_recent_notes(notes, recent_days, now)
    \cup TopKIds(notes, query_terms, topk)

\* C7: the ranked list holds exactly one entry for each id of the union of
\* the link-expanded, recency and top-K sets that names a loaded note, and
\* nothing else; each entry carries that note and its score_note score; the
\* scores never increase along the list.
C7_RankedCandidates ==
    pc \in {"render", "done"} =>
        LET resolved == UnionOfSources \cap Loaded(notes)
        IN /\ Len(candidate_notes) = Cardinality(resolved)
           /\ {candidate_notes[i][1].id : i \in 1..Len(candidate_notes)} = resolved
           /\ \A i \in 1..Len(candidate_notes) :
                /\ \E k \in 1..Len(notes) : notes[k] = candidate_notes[i][1]
                /\ candidate_notes[i][2] = score_note(candidate_notes[i][1], query_terms)
           /\ \A i, j \in 1..Len(candidate_notes) :
                i < j => candidate_notes[i][2] >= candidate_notes[j][2]

\* a ranked list built from all three sources, with an id naming no note
\* dropped and two different scores in order
C7_Witness ==
    /\ pc = "render"
    /\ seed_ids # {} /\ IdZ \in candidate_ids /\ recent # {}
    /\ \E x \in TopKIds(notes, query_terms, topk) :
          x \notin recent /\ x \notin expand_links(notes, seed_ids, hops)
    /\ Len(candidate_notes) = 3
    /\ candidate_notes[1][2] > candidate_notes[3][2]

-----------------------------------------------------------------------------
(* SpecRender: the render loop of create_context_pack on ranked lists of   *)
(* up to MaxCands candidates that tie on score (no query term): long       *)
(* blocks with a few short ones at any places                              *)

MaxCands == 10
MaxShort == 2

IdChars == Str(<<"0","1","2","3","4","5","6","7","8","9","a","b","c","d","e","f">>)

\* a note with a Summary and a Key Points section: a block of 161
\* characters, 40 estimated tokens
LongNote(i) ==
    MkNote(<<Ord("n"), IdChars[i]>>, Rep(Ord("t"), 40),
           HeaderMark \o HSummary \o <<NL>> \o Rep(Ord("s"), 6) \o <<NL>>
             \o HeaderMark \o HKeyPoints \o <<NL>> \o Rep(Ord("k"), 4) \o <<NL>>,
           <<TermAB>>, <<>>, NoDate)

\* a note without sections: a block of 90 characters, 22 estimated tokens
ShortNote(i) ==
    MkNote(<<Ord("n"), IdChars[i]>>, Str(<<"t">>), Str(<<"x">>), <<>>, <<Link(IdZ)>>, NoDate)

\* the lists of n notes, long ones but for at most MaxShort short ones
RenderVaults(n) ==
    {[i \in 1..n |-> IF i \in short THEN ShortNote(i) ELSE LongNote(i)] :
        short \in {S \in SUBSET (1..n) : Cardinality(S) <= MaxShort}}

\* a budget nothing fits, two that a few blocks fill, and the default
RenderBudgets == {1, 180, 250, 8000}

\* create_context_pack about to enter its render loop: every note is a
\* candidate (all were updated today), all scores are 0
InitRender ==
    /\ pc = "render"
    /\ \E n \in 0..MaxCands : \E v \in RenderVaults(n) :
          /\ notes = [i \in 1..Len(v) |->
                        [v[i] EXCEPT !.updated = [kind |-> "str", day |-> NowDay, tod |-> 0]]]
          /\ candidate_ids = {v[i].id : i \in 1..Len(v)}
          /\ recent = {v[i].id : i \in 1..Len(v)}
    /\ candidate_notes = [i \in 1..Len(notes) |-> <<notes[i], 0>>]
    /\ max_tokens \in RenderBudgets
    /\ query_terms = <<>> /\ seed_ids = {} /\ hops = 1 /\ recent_days = 1
    /\ topk = 1 /\ now = [day |-> NowDay, tod |-> 1]
    /\ output_lines = <<>> /\ total_tokens = 0 /\ included = 0 /\ cursor = 0
    /\ ParkExpand /\ ParkScore /\ ParkExtract

NextRender == RenderStep \/ RenderEnd

SpecRender == InitRender /\ [][NextRender]_vars

\* the minimum-inclusion floor
Floor == 4

\* estimated costs of the ranked candidates: each block's length in
\* characters, integer-divided by 4
Costs == [i \in 1..Len(candidate_notes) |-> SectionLen(candidate_notes[i][1]) \div 4]

RECURSIVE SumFirst(_, _)
\* summed cost of the first k candidates
SumFirst(c, k) == IF k = 0 THEN 0 ELSE c[k] + SumFirst(c, k - 1)

\* the candidate at position i is appended at its turn
Admitted(c, i) == SumFirst(c, i - 1) + c[i] <= max_tokens \/ i - 1 < Floor

\* C1: when the loop has ended the first min(4, n) ranked candidates are in
\* the pack whatever they cost; with max_tokens = 1 and 10 candidates of
\* about 40 tokens each exactly the first 4 are.
C1_MinimumInclusion ==
    pc = "done" =>
        /\ \A i \in 1..Len(candidate_notes) :
              i <= Floor => /\ Len(output_lines) >= i
                            /\ output_lines[i] = candidate_notes[i][1].id
        /\ (/\ max_tokens = 1
            /\ Len(candidate_notes) = 10
            /\ LET c == Costs IN \A i \in 1..10 : c[i] \in 38..42)
           => /\ included = 4
              /\ output_lines = [i \in 1..4 |-> candidate_notes[i][1].id]

\* the loop ended on ten 40-token candidates and a budget of 1
C1_Witness ==
    /\ pc = "done" /\ max_tokens = 1 /\ Len(candidate_notes) = 10
    /\ Costs = [i \in 1..10 |-> 40]
    /\ included = 4

\* C2: the blocks appended are always a prefix of the ranked list, each
\* counted at its cost (block length div 4); a candidate is appended at its
\* turn exactly when the running total plus its cost is within max_tokens or
\* fewer than 4 are included; at the first candidate that is not, the loop
\* ends and all the remaining ones are dropped.
C2_BudgetStopRule ==
    pc \in {"render", "done"} =>
        LET c == Costs
        IN /\ included <= Len(candidate_notes)
           /\ output_lines = [i \in 1..included |-> candidate_notes[i][1].id]
           /\ total_tokens = SumFirst(c, included)
           /\ \A i \in 1..included : Admitted(c, i)
           /\ (pc = "done" /\ included < Len(candidate_notes)
                 => ~Admitted(c, included + 1))

\* the loop stopped on a block after four appended ones, and dropped with
\* it a later short block that the budget left room for
C2_Witness ==
    /\ pc = "done" /\ included = 4 /\ Len(candidate_notes) >= 6
    /\ LET c == Costs
       IN /\ ~Admitted(c, 5)
          /\ \E j \in 6..Len(candidate_notes) : total_tokens + c[j] <= max_tokens

====
